---- MODULE Spec2Model ----
(***************************************************************************)
(* Model of the kitties pallet (pallets/template/src/lib.rs): the three    *)
(* storage items CountForKitties, Kitties and KittiesOwned, the            *)
(* dispatchable create_kitty and the helpers gen_dna and mint.             *)
(*                                                                         *)
(* Every call is one atomic step: the runtime applies extrinsics one at a  *)
(* time.  Inside a step the storage is threaded through the statements of  *)
(* mint in source order, so a failing statement returns the storage as the *)
(* statements before it left it.                                           *)
(***************************************************************************)
EXTENDS Integers, Naturals, Sequences, FiniteSets, TLC

VARIABLES
    CountForKitties,   \* StorageValue<u64, ValueQuery>
    Kitties,           \* StorageMap<[u8; 16], Kitty<T>>
    KittiesOwned,      \* StorageMap<AccountId, BoundedVec<[u8; 16], MaxKittiesOwned>, ValueQuery>
    events,            \* the events deposited through deposit_event, oldest first
    last,              \* the most recent call: its entry point, arguments and result
    succeeded          \* number of calls that returned Ok so far

storage == <<CountForKitties, Kitties, KittiesOwned>>
vars == <<CountForKitties, Kitties, KittiesOwned, events, last, succeeded>>

----------------------------------------------------------------------------
(* Bounds and constants *)

\* T::MaxKittiesOwned, a Get<u32> fixed by the runtime.
MaxKittiesOwned == 2

\* u64::MAX.  The counter is a u64 and MaxKittiesOwned a u32, so the largest
\* counter value lies strictly above MaxKittiesOwned; the model keeps that
\* relation with a narrow counter.
U64Max == MaxKittiesOwned + 1

\* Number of bytes of a dna array, [u8; 16].
DnaLen == 16

\* Number of distinct digests the model of blake2_128 produces: enough for a
\* fresh dna to exist when the counter has reached U64Max.
HashRange == U64Max + 1

----------------------------------------------------------------------------
(* Types *)

\* Option<T>: None is the empty tuple and Some(v) the one-element tuple.
None == << >>
Some(v) == <<v>>

\* The unit value ().
Unit == << >>

\* Placeholder for an argument a call did not have or did not compute.
NoArg == "-"

AccountId == {"A", "B"}

\* OriginFor<T>: a signed origin carries the account, the others carry none.
Origins == {<<"Signed", a>> : a \in AccountId} \cup {<<"None", NoArg>>}

Gender == {"Male", "Female"}

\* Result<T, DispatchError>
Ok(v) == [ok |-> TRUE, err |-> NoArg, val |-> v]
Err(e) == [ok |-> FALSE, err |-> e, val |-> Unit]

\* The execution context read by gen_dna.
Randoms == {0, 1}
ExtrinsicIndices == {None, Some(0), Some(1)}
BlockNumbers == {1, 2}

----------------------------------------------------------------------------
(* Library functions used by the pallet *)

\* Mutant of ensure_signed: an unsigned origin resolves to a default account.
ensure_signed_default(origin) ==
    IF origin[1] = "Signed" THEN Ok(origin[2]) ELSE Ok("A")

\* frame_system::ensure_signed
ensure_signed(origin) ==
    IF origin[1] = "Signed" THEN Ok(origin[2]) ELSE Err("BadOrigin")

\* Option::unwrap_or_default on Option<u32>
unwrap_or_default(opt) == IF opt = None THEN 0 ELSE opt[1]

\* Encode::encode of the payload tuple: the fields one after the other.
encode(unique_payload) ==
    <<unique_payload[1], unique_payload[2], unique_payload[3]>>

RECURSIVE WeightedSum(_, _)
WeightedSum(bytes, i) ==
    IF i > Len(bytes) THEN 0 ELSE i * bytes[i] + WeightedSum(bytes, i + 1)

\* The digest with number h: DnaLen bytes.
Digest(h) == [i \in 1..DnaLen |-> (h \div i) % 256]

\* Hashable::blake2_128: a fixed function from byte strings to DnaLen-byte
\* digests.  The model mixes all bytes of the input into one of HashRange
\* digests, so distinct payloads may collide.
blake2_128(bytes) == Digest(WeightedSum(bytes, 1) % HashRange)

Dna == {Digest(h) : h \in 0..(HashRange - 1)}

\* Mutant of checked_add: the sum wraps around instead of failing.
checked_add_wrapping(a, b) == Some((a + b) % (U64Max + 1))

\* u64::checked_add
checked_add(a, b) == IF a + b > U64Max THEN None ELSE Some(a + b)

\* Mutant of contains_key: the key is never found.
contains_key_never(map, key) == FALSE

\* StorageMap::contains_key
contains_key(map, key) == key \in DOMAIN map

\* Mutant of insert: the write is lost.
insert_dropped(map, key, value) == map

\* Mutant of insert: the map is overwritten, so the other entries are lost.
insert_replacing(map, key, value) == [k \in {key} |-> value]

\* StorageMap::insert
insert(map, key, value) ==
    [k \in (DOMAIN map) \cup {key} |-> IF k = key THEN value ELSE map[k]]

\* Mutant of try_append: the bound of the vector is not enforced.
try_append_unbounded(map, key, item) ==
    Ok([map EXCEPT ![key] = Append(@, item)])

\* Mutant of try_append: the bound is compared with <= instead of <.
try_append_off_by_one(map, key, item) ==
    IF Len(map[key]) <= MaxKittiesOwned
    THEN Ok([map EXCEPT ![key] = Append(@, item)])
    ELSE Err("()")

\* Mutant of try_append: success is reported but the item is not stored.
try_append_dropped(map, key, item) ==
    IF Len(map[key]) < MaxKittiesOwned
    THEN Ok(map)
    ELSE Err("()")

\* Mutant of try_append: the append is refused when any account's vector is
\* full, not only the one appended to.
try_append_any_full(map, key, item) ==
    IF \A k \in DOMAIN map : Len(map[k]) < MaxKittiesOwned
    THEN Ok([map EXCEPT ![key] = Append(@, item)])
    ELSE Err("()")

\* Mutant of try_append: the item is put in front of the vector.
try_append_front(map, key, item) ==
    IF Len(map[key]) < MaxKittiesOwned
    THEN Ok([map EXCEPT ![key] = <<item>> \o @])
    ELSE Err("()")

\* StorageMap::try_append on a BoundedVec value: the item is appended unless
\* the vector already holds MaxKittiesOwned items.
try_append(map, key, item) ==
    IF Len(map[key]) < MaxKittiesOwned
    THEN Ok([map EXCEPT ![key] = Append(@, item)])
    ELSE Err("()")

----------------------------------------------------------------------------
(* The pallet's internal functions *)

\* Storage as one value, to thread it through a function's statements.
Storage(count, kitties, owned, evs) ==
    [count |-> count, kitties |-> kitties, owned |-> owned, events |-> evs]

\* Event::Created
Created(kitty, owner) == [kitty |-> kitty, owner |-> owner]

\* Mutant of deposit_event: the event is not recorded.
deposit_event_dropped(st, event) == st

\* Mutant of deposit_event: the event is recorded twice.
deposit_event_twice(st, event) ==
    [st EXCEPT !.events = Append(Append(@, event), event)]

\* Pallet::deposit_event
deposit_event(st, event) == [st EXCEPT !.events = Append(@, event)]

\* Mutant of gen_dna: the gender is taken from the last byte of the hash.
gen_dna_last_byte(random, extrinsic_index, block_number) ==
    LET unique_payload ==
            <<random, unwrap_or_default(extrinsic_index), block_number>>
        encoded_payload == encode(unique_payload)
        hash == blake2_128(encoded_payload)
    IN  IF hash[DnaLen] % 2 = 0
        THEN <<hash, "Male">>
        ELSE <<hash, "Female">>

\* Pallet::gen_dna
gen_dna(random, extrinsic_index, block_number) ==
    LET unique_payload ==
            <<random, unwrap_or_default(extrinsic_index), block_number>>
        encoded_payload == encode(unique_payload)
        hash == blake2_128(encoded_payload)
    IN  IF hash[1] % 2 = 0
        THEN <<hash, "Male">>
        ELSE <<hash, "Female">>

\* Mutant of mint: the counter is written before try_append has succeeded.
mint_put_before_append(st, owner, dna, gender) ==
    LET kitty == [dna |-> dna, price |-> None, gender |-> gender, owner |-> owner]
    IN
    IF contains_key(st.kitties, kitty.dna)
    THEN [result |-> Err("DuplicateKitty"), st |-> st]
    ELSE
    LET new_count == checked_add(st.count, 1)
    IN
    IF new_count = None
    THEN [result |-> Err("Overflow"), st |-> st]
    ELSE
    LET st1 == [st EXCEPT !.count = new_count[1]]
        appended == try_append(st1.owned, owner, kitty.dna)
    IN
    IF ~appended.ok
    THEN [result |-> Err("TooManyOwned"), st |-> st1]
    ELSE
    LET st2 == [st1 EXCEPT !.owned = appended.val]
        st3 == [st2 EXCEPT !.kitties = insert(@, kitty.dna, kitty)]
        st4 == deposit_event(st3, Created(dna, owner))
    IN  [result |-> Ok(dna), st |-> st4]

\* Mutant of mint: the kitty is inserted before the fallible statements.
mint_insert_first(st, owner, dna, gender) ==
    LET kitty == [dna |-> dna, price |-> None, gender |-> gender, owner |-> owner]
    IN
    IF contains_key(st.kitties, kitty.dna)
    THEN [result |-> Err("DuplicateKitty"), st |-> st]
    ELSE
    LET st1 == [st EXCEPT !.kitties = insert(@, kitty.dna, kitty)]
        new_count == checked_add(st1.count, 1)
    IN
    IF new_count = None
    THEN [result |-> Err("Overflow"), st |-> st1]
    ELSE
    LET appended == try_append(st1.owned, owner, kitty.dna)
    IN
    IF ~appended.ok
    THEN [result |-> Err("TooManyOwned"), st |-> st1]
    ELSE
    LET st2 == [st1 EXCEPT !.owned = appended.val]
        st3 == [st2 EXCEPT !.count = new_count[1]]
        st4 == deposit_event(st3, Created(dna, owner))
    IN  [result |-> Ok(dna), st |-> st4]

\* Mutant of mint: the owner's capacity is checked before the other two
\* preconditions.
mint_capacity_first(st, owner, dna, gender) ==
    LET kitty == [dna |-> dna, price |-> None, gender |-> gender, owner |-> owner]
        appended == try_append(st.owned, owner, kitty.dna)
    IN
    IF ~appended.ok
    THEN [result |-> Err("TooManyOwned"), st |-> st]
    ELSE
    IF contains_key(st.kitties, kitty.dna)
    THEN [result |-> Err("DuplicateKitty"), st |-> st]
    ELSE
    LET new_count == checked_add(st.count, 1)
    IN
    IF new_count = None
    THEN [result |-> Err("Overflow"), st |-> st]
    ELSE
    LET st1 == [st EXCEPT !.owned = appended.val]
        st2 == [st1 EXCEPT !.kitties = insert(@, kitty.dna, kitty)]
        st3 == [st2 EXCEPT !.count = new_count[1]]
        st4 == deposit_event(st3, Created(dna, owner))
    IN  [result |-> Ok(dna), st |-> st4]

\* Pallet::mint: the result and the storage the call leaves behind.
mint(st, owner, dna, gender) ==
    LET kitty == [dna |-> dna, price |-> None, gender |-> gender, owner |-> owner]
    IN
    IF contains_key(st.kitties, kitty.dna)
    THEN [result |-> Err("DuplicateKitty"), st |-> st]
    ELSE
    LET count == st.count
        new_count == checked_add(count, 1)
    IN
    IF new_count = None
    THEN [result |-> Err("Overflow"), st |-> st]
    ELSE
    LET appended == try_append(st.owned, owner, kitty.dna)
    IN
    IF ~appended.ok
    THEN [result |-> Err("TooManyOwned"), st |-> st]
    ELSE
    LET st1 == [st EXCEPT !.owned = appended.val]
        st2 == [st1 EXCEPT !.kitties = insert(@, kitty.dna, kitty)]
        st3 == [st2 EXCEPT !.count = new_count[1]]
        st4 == deposit_event(st3, Created(dna, owner))
    IN  [result |-> Ok(dna), st |-> st4]

\* Mutant of create_kitty: the sender is mixed into the payload of the dna.
create_kitty_sender_in_payload(st, origin, random, extrinsic_index, block_number) ==
    LET sender == ensure_signed(origin)
    IN
    IF ~sender.ok
    THEN [result |-> sender, st |-> st, dna |-> << >>, gender |-> NoArg]
    ELSE
    LET g == gen_dna(IF sender.val = "A" THEN random ELSE random + 1,
                     extrinsic_index, block_number)
        kitty_gen_dna == g[1]
        gender == g[2]
        m == mint(st, sender.val, kitty_gen_dna, gender)
    IN
    IF ~m.result.ok
    THEN [result |-> m.result, st |-> m.st, dna |-> kitty_gen_dna, gender |-> gender]
    ELSE [result |-> Ok(Unit), st |-> m.st, dna |-> kitty_gen_dna, gender |-> gender]

\* Pallet::create_kitty
create_kitty(st, origin, random, extrinsic_index, block_number) ==
    LET sender == ensure_signed(origin)
    IN
    IF ~sender.ok
    THEN [result |-> sender, st |-> st, dna |-> << >>, gender |-> NoArg]
    ELSE
    LET g == gen_dna(random, extrinsic_index, block_number)
        kitty_gen_dna == g[1]
        gender == g[2]
        m == mint(st, sender.val, kitty_gen_dna, gender)
    IN
    IF ~m.result.ok
    THEN [result |-> m.result, st |-> m.st, dna |-> kitty_gen_dna, gender |-> gender]
    ELSE [result |-> Ok(Unit), st |-> m.st, dna |-> kitty_gen_dna, gender |-> gender]

----------------------------------------------------------------------------
(* State machine *)

Current == Storage(CountForKitties, Kitties, KittiesOwned, events)

\* The record of a call kept in last.
Call(call, origin, dna, gender, result) ==
    [call |-> call, origin |-> origin, dna |-> dna, gender |-> gender,
     result |-> result]

Init ==
    /\ CountForKitties = 0
    /\ Kitties = << >>
    /\ KittiesOwned = [a \in AccountId |-> << >>]
    /\ events = << >>
    /\ last = Call(NoArg, <<"None", NoArg>>, << >>, NoArg, Ok(Unit))
    /\ succeeded = 0

\* The extrinsic create_kitty, dispatched with some origin in some context.
CreateKitty ==
    \E origin \in Origins, random \in Randoms,
       extrinsic_index \in ExtrinsicIndices, block_number \in BlockNumbers :
        LET out == create_kitty(Current, origin, random, extrinsic_index, block_number)
        IN  /\ CountForKitties' = out.st.count
            /\ Kitties' = out.st.kitties
            /\ KittiesOwned' = out.st.owned
            /\ events' = out.st.events
            /\ last' = Call("create_kitty", origin, out.dna, out.gender, out.result)
            /\ succeeded' = IF out.result.ok THEN succeeded + 1 ELSE succeeded

\* The (dna, gender) pairs direct callers of mint pass: what gen_dna returns
\* for each dna, and for one dna also the gender gen_dna would not give it.
MintArgs ==
    {gen_dna(r, i, b) : r \in Randoms, i \in ExtrinsicIndices, b \in BlockNumbers}
        \cup {<<Digest(0), "Female">>}

\* A direct call of the public helper mint.
Mint ==
    \E owner \in AccountId, arg \in MintArgs :
        LET dna == arg[1]
            gender == arg[2]
            out == mint(Current, owner, dna, gender)
        IN  /\ CountForKitties' = out.st.count
            /\ Kitties' = out.st.kitties
            /\ KittiesOwned' = out.st.owned
            /\ events' = out.st.events
            /\ last' = Call("mint", <<"Signed", owner>>, dna, gender, out.result)
            /\ succeeded' = IF out.result.ok THEN succeeded + 1 ELSE succeeded

Next == CreateKitty \/ Mint

Spec == Init /\ [][Next]_vars

----------------------------------------------------------------------------
(* Vocabulary of the properties *)

\* The ids in a sequence of ids.
Range(seq) == {seq[i] : i \in 1..Len(seq)}

\* The call recorded in l got as far as calling mint.
ReachedMint(l) ==
    \/ l.call = "mint"
    \/ l.call = "create_kitty" /\ l.origin[1] = "Signed"

\* The account a call recorded in l minted for.
Owner(l) == l.origin[2]

\* The call recorded in l returned the error e.
Failed(l, e) == ~l.result.ok /\ l.result.err = e

----------------------------------------------------------------------------
(* Properties *)

\* C1: after any sequence of calls of which N succeeded (and any number
\* failed), CountForKitties equals N and Kitties has exactly N entries.
C1_CountIsSuccesses ==
    /\ CountForKitties = succeeded
    /\ Cardinality(DOMAIN Kitties) = succeeded

\* Two calls have succeeded and a later call has failed.
C1_Witness ==
    /\ succeeded = 2
    /\ CountForKitties = 2
    /\ ~last.result.ok

\* C2: every id in an owner's KittiesOwned sequence has an entry in Kitties
\* whose owner field is that owner, and the id is in no other owner's
\* sequence.
C2_OwnedHaveRecords ==
    \A o \in AccountId : \A d \in Range(KittiesOwned[o]) :
        /\ d \in DOMAIN Kitties
        /\ Kitties[d].owner = o
        /\ \A p \in AccountId \ {o} : d \notin Range(KittiesOwned[p])

\* Both accounts own kitties, one of them two.
C2_Witness ==
    /\ Len(KittiesOwned["A"]) = 2
    /\ Len(KittiesOwned["B"]) = 1

\* C3: no KittiesOwned sequence is ever longer than MaxKittiesOwned; and when
\* one account has minted MaxKittiesOwned times and nobody else has, its next
\* mint (of a dna not yet stored, as the scenario assumes) fails with
\* TooManyOwned and the counter stays at MaxKittiesOwned.
C3_Capacity ==
    /\ [](\A o \in AccountId : Len(KittiesOwned[o]) <= MaxKittiesOwned)
    /\ [][\A a \in AccountId :
            ( /\ Len(KittiesOwned[a]) = MaxKittiesOwned
              /\ CountForKitties = MaxKittiesOwned
              /\ ReachedMint(last') /\ Owner(last') = a
              /\ last'.dna \notin DOMAIN Kitties )
            => ( /\ Failed(last', "TooManyOwned")
                 /\ CountForKitties' = MaxKittiesOwned )]_vars

\* Account A alone minted MaxKittiesOwned times and its next mint failed
\* with TooManyOwned.
C3_Witness ==
    /\ Len(KittiesOwned["A"]) = MaxKittiesOwned
    /\ succeeded = MaxKittiesOwned
    /\ CountForKitties = MaxKittiesOwned
    /\ ReachedMint(last) /\ Owner(last) = "A"
    /\ Failed(last, "TooManyOwned")

\* C4: a mint with a dna that is already a key of Kitties fails with
\* DuplicateKitty and leaves the three storage items unchanged; a mint that
\* succeeds used a dna that was no key before and is one afterwards, and no
\* key is ever removed, so no two successful mints return the same dna.
C4_DuplicateRejected ==
    [][ /\ ( ReachedMint(last') /\ last'.dna \in DOMAIN Kitties )
            => ( Failed(last', "DuplicateKitty") /\ UNCHANGED storage )
        /\ ( ReachedMint(last') /\ last'.result.ok )
            => ( /\ last'.dna \notin DOMAIN Kitties
                 /\ last'.dna \in DOMAIN Kitties' )
        /\ DOMAIN Kitties \subseteq DOMAIN Kitties' ]_vars

\* A direct mint with a stored dna has just failed with DuplicateKitty.
C4_Witness ==
    /\ last.call = "mint"
    /\ last.dna \in DOMAIN Kitties
    /\ Failed(last, "DuplicateKitty")

\* C5 as stated: for an owner who owns exactly MaxKittiesOwned kitties, every
\* further mint for that owner fails with TooManyOwned and leaves the counter
\* and both maps as they were.
C5_EveryAttemptTooManyOwned ==
    [][\A a \in AccountId :
        ( /\ Len(KittiesOwned[a]) = MaxKittiesOwned
          /\ ReachedMint(last') /\ Owner(last') = a )
        => ( Failed(last', "TooManyOwned") /\ UNCHANGED storage )]_vars

\* C5 amended: for an owner who owns exactly MaxKittiesOwned kitties, every
\* further mint for that owner fails and leaves the counter and both maps as
\* they were; the error is DuplicateKitty when the dna is already stored,
\* else Overflow when the counter is at its maximum, else TooManyOwned.
C5_AtCapacityFails ==
    [][\A a \in AccountId :
        ( /\ Len(KittiesOwned[a]) = MaxKittiesOwned
          /\ ReachedMint(last') /\ Owner(last') = a )
        => ( /\ ~last'.result.ok
             /\ UNCHANGED storage
             /\ last'.result.err =
                    IF last'.dna \in DOMAIN Kitties THEN "DuplicateKitty"
                    ELSE IF CountForKitties = U64Max THEN "Overflow"
                    ELSE "TooManyOwned" )]_vars

\* A direct mint of a fresh dna for an owner at capacity, with the counter
\* below its maximum, has just been refused with TooManyOwned.
C5_Witness ==
    /\ last.call = "mint"
    /\ Len(KittiesOwned[Owner(last)]) = MaxKittiesOwned
    /\ last.dna \notin DOMAIN Kitties
    /\ CountForKitties < U64Max
    /\ Failed(last, "TooManyOwned")

\* C6 as stated: when CountForKitties is at its maximum, the next mint fails
\* with Overflow and the state is unchanged; the counter never decreases.
C6_AtMaxOverflow ==
    [][ /\ ( CountForKitties = U64Max /\ ReachedMint(last') )
            => ( Failed(last', "Overflow") /\ UNCHANGED <<storage, events>> )
        /\ CountForKitties' >= CountForKitties ]_vars

\* C6 amended: when CountForKitties is at its maximum, the next mint fails
\* and the state is unchanged; the error is Overflow when the dna is not yet
\* stored and DuplicateKitty when it is.  The counter never exceeds its
\* maximum and never decreases.
C6_AtMaxFails ==
    /\ [](CountForKitties <= U64Max)
    /\ [][ /\ ( CountForKitties = U64Max /\ ReachedMint(last') )
                => ( /\ ~last'.result.ok
                     /\ UNCHANGED <<storage, events>>
                     /\ last'.result.err =
                            IF last'.dna \in DOMAIN Kitties
                            THEN "DuplicateKitty" ELSE "Overflow" )
            /\ CountForKitties' >= CountForKitties ]_vars

\* The counter is at its maximum and a mint of a fresh dna, for an owner
\* with room, has just failed with Overflow.
C6_Witness ==
    /\ CountForKitties = U64Max
    /\ ReachedMint(last)
    /\ last.dna \notin DOMAIN Kitties
    /\ Len(KittiesOwned[Owner(last)]) < MaxKittiesOwned
    /\ Failed(last, "Overflow")

\* The errors a call can return.
Errors == {"BadOrigin", "DuplicateKitty", "Overflow", "TooManyOwned"}

\* C7: every create_kitty call is all-or-nothing.  If it succeeds, a record
\* that did not exist before is stored under the generated dna with the
\* caller as owner, the dna is appended to the caller's sequence, the counter
\* has grown by one and one Created event was deposited.  If it fails, it
\* returns one of the typed errors and the counter, both maps and the events
\* are unchanged.
C7_AllOrNothing ==
    [][last'.call = "create_kitty" =>
        IF last'.result.ok
        THEN /\ last'.dna \notin DOMAIN Kitties
             /\ DOMAIN Kitties' = DOMAIN Kitties \cup {last'.dna}
             /\ Kitties'[last'.dna].owner = Owner(last')
             /\ KittiesOwned' =
                    [KittiesOwned EXCEPT ![Owner(last')] = Append(@, last'.dna)]
             /\ CountForKitties' = CountForKitties + 1
             /\ events' = Append(events, Created(last'.dna, Owner(last')))
        ELSE /\ last'.result.err \in Errors
             /\ UNCHANGED <<storage, events>>]_vars

\* A create_kitty call has failed at the last precondition of mint, after the
\* caller had created kitties successfully.
C7_Witness ==
    /\ last.call = "create_kitty"
    /\ Failed(last, "TooManyOwned")
    /\ Len(events) = MaxKittiesOwned

\* C8: when several preconditions of mint are violated at once, the error is
\* the first in the order duplicate dna, counter overflow, owner capacity: a
\* stored dna gives DuplicateKitty whatever else is violated, and a fresh dna
\* for an owner at capacity with the counter at its maximum gives Overflow.
C8_FirstFailureWins ==
    [][ReachedMint(last') =>
        LET dup == last'.dna \in DOMAIN Kitties
            over == CountForKitties = U64Max
            full == Len(KittiesOwned[Owner(last')]) = MaxKittiesOwned
        IN  /\ ( dup /\ (over \/ full) ) => Failed(last', "DuplicateKitty")
            /\ ( ~dup /\ over /\ full ) => Failed(last', "Overflow")]_vars

\* A mint of a stored dna, for an owner at capacity, with the counter at its
\* maximum, has returned DuplicateKitty.
C8_Witness ==
    /\ ReachedMint(last)
    /\ last.dna \in DOMAIN Kitties
    /\ CountForKitties = U64Max
    /\ Len(KittiesOwned[Owner(last)]) = MaxKittiesOwned
    /\ Failed(last, "DuplicateKitty")

\* C9 as stated: a direct call of mint deposits no event; events are
\* deposited only by create_kitty, when its call of mint has succeeded.
C9_MintEmitsNothing ==
    [][ /\ last'.call = "mint" => events' = events
        /\ events' # events => (last'.call = "create_kitty" /\ last'.result.ok)
      ]_vars

\* C9 amended: mint itself deposits the Created event, as its last statement
\* before returning Ok.  Every successful call of mint, direct or made by
\* create_kitty, appends exactly one Created{dna, owner} to the events and
\* create_kitty deposits nothing of its own; a call that fails deposits
\* nothing.
C9_MintDepositsCreated ==
    [][IF ReachedMint(last') /\ last'.result.ok
       THEN events' = Append(events, Created(last'.dna, Owner(last')))
       ELSE events' = events]_vars

\* A direct call of mint has succeeded and its Created event is the latest.
C9_Witness ==
    /\ last.call = "mint"
    /\ last.result.ok
    /\ Len(events) > 0
    /\ events[Len(events)] = Created(last.dna, Owner(last))

\* C10: a create_kitty call whose origin is not a signed account fails with
\* BadOrigin before gen_dna or mint is called: no dna or gender is generated,
\* the counter and both maps are unchanged and no event is deposited.
C10_UnsignedRejected ==
    [][( last'.call = "create_kitty" /\ last'.origin[1] # "Signed" )
        => ( /\ Failed(last', "BadOrigin")
             /\ last'.dna = << >>
             /\ last'.gender = NoArg
             /\ UNCHANGED <<storage, events>> )]_vars

\* An unsigned create_kitty has been rejected in a registry that holds a
\* kitty and has room for more.
C10_Witness ==
    /\ last.call = "create_kitty"
    /\ last.origin[1] # "Signed"
    /\ Failed(last, "BadOrigin")
    /\ CountForKitties = 1

\* C11: a successful mint(owner, dna, gender) returns dna, stores exactly the
\* record {dna, owner, gender, price None} under dna, which was no key before,
\* appends dna to the end of owner's sequence, increases the counter by
\* exactly 1, and leaves every other record and every other owner's sequence
\* as they were.
C11_MintEffect ==
    [][( ReachedMint(last') /\ last'.result.ok ) =>
        LET owner == Owner(last')
            dna == last'.dna
            record == [dna |-> dna, owner |-> owner, gender |-> last'.gender,
                       price |-> None]
        IN  /\ last'.call = "mint" => last'.result.val = dna
            /\ dna \notin DOMAIN Kitties
            /\ DOMAIN Kitties' = DOMAIN Kitties \cup {dna}
            /\ Kitties'[dna] = record
            /\ \A d \in DOMAIN Kitties : Kitties'[d] = Kitties[d]
            /\ KittiesOwned'[owner] = Append(KittiesOwned[owner], dna)
            /\ \A p \in AccountId \ {owner} : KittiesOwned'[p] = KittiesOwned[p]
            /\ CountForKitties' = CountForKitties + 1]_vars

\* A direct mint has succeeded for an owner who already had a kitty, while
\* the other account has one too, with a gender gen_dna would not give.
C11_Witness ==
    /\ last.call = "mint"
    /\ last.result.ok
    /\ last.gender # gen_dna(0, None, 1)[2]
    /\ last.dna = Digest(0)
    /\ Len(KittiesOwned[Owner(last)]) = 2
    /\ \E p \in AccountId \ {Owner(last)} : Len(KittiesOwned[p]) = 1

\* How many times a failing call is repeated.
MaxRepeats == 3

\* The execution contexts a create_kitty call can run in.
Contexts == Randoms \X ExtrinsicIndices \X BlockNumbers

\* The contexts the call recorded in l can have run in: a create_kitty call
\* that got to gen_dna ran in a context that gives the recorded dna and
\* gender; one that was rejected before ran in any context.  A direct mint
\* reads no context.
ContextsOf(l) ==
    IF l.call = "create_kitty" /\ l.origin[1] = "Signed"
    THEN {c \in Contexts : gen_dna(c[1], c[2], c[3]) = <<l.dna, l.gender>>}
    ELSE Contexts

\* The call recorded in l made again, with the same inputs, on storage st.
Replay(st, l, c) ==
    IF l.call = "mint"
    THEN mint(st, Owner(l), l.dna, l.gender)
    ELSE LET out == create_kitty(st, l.origin, c[1], c[2], c[3])
         IN  [result |-> out.result, st |-> out.st]

\* Making the call recorded in l again n times in a row from st returns l's
\* error every time and never changes the counter or the two maps.
RECURSIVE RepeatsAlike(_, _, _, _)
RepeatsAlike(st, l, c, n) ==
    IF n = 0 THEN TRUE
    ELSE LET out == Replay(st, l, c)
         IN  /\ Failed(out, l.result.err)
             /\ out.st.count = st.count
             /\ out.st.kitties = st.kitties
             /\ out.st.owned = st.owned
             /\ RepeatsAlike(out.st, l, c, n - 1)

\* C12: when a call has failed, making it again with the same inputs in the
\* state it left behind, any number of times, never changes CountForKitties,
\* Kitties or KittiesOwned and returns the same error every time.
C12_FailureRepeats ==
    ( last.call # NoArg /\ ~last.result.ok ) =>
        \A c \in ContextsOf(last) : RepeatsAlike(Current, last, c, MaxRepeats)

\* A create_kitty call for an owner at capacity has failed with TooManyOwned,
\* and made again in the same context it fails again.
C12_Witness ==
    /\ last.call = "create_kitty"
    /\ Failed(last, "TooManyOwned")
    /\ \E c \in ContextsOf(last) : ~Replay(Current, last, c).result.ok

\* C13: records are created once and never changed.  Once a dna is a key of
\* Kitties it stays one and the record under it (owner, gender, price) is the
\* same in every later state; every stored record has price None; and
\* CountForKitties never decreases.
C13_RecordsImmutable ==
    /\ [](\A d \in DOMAIN Kitties : Kitties[d].price = None)
    /\ [][ /\ \A d \in DOMAIN Kitties :
                /\ d \in DOMAIN Kitties'
                /\ Kitties'[d] = Kitties[d]
            /\ CountForKitties' >= CountForKitties ]_vars

\* Another account has tried to mint a dna that is stored for its owner, and
\* a further record has been created since that dna was stored.
C13_Witness ==
    /\ ReachedMint(last)
    /\ last.dna \in DOMAIN Kitties
    /\ Kitties[last.dna].owner # Owner(last)
    /\ Kitties[last.dna].gender # last.gender
    /\ Cardinality(DOMAIN Kitties) > 1

\* C14: the Created events correspond one-to-one to the stored records.
\* There are as many events as CountForKitties says, no two events name the
\* same kitty, the kitties named are exactly the keys of Kitties, and each
\* event's owner is the owner of the record it names; calls that failed
\* have added none.
C14_EventsMatchRecords ==
    /\ Len(events) = CountForKitties
    /\ Len(events) = succeeded
    /\ {events[i].kitty : i \in 1..Len(events)} = DOMAIN Kitties
    /\ \A i, j \in 1..Len(events) :
            events[i].kitty = events[j].kitty => i = j
    /\ \A i \in 1..Len(events) :
            Kitties[events[i].kitty].owner = events[i].owner

\* Both accounts have created kitties through create_kitty and direct mint,
\* as many as the counter allows, and the latest call has failed.
C14_Witness ==
    /\ Len(events) = U64Max
    /\ \A a \in AccountId : \E i \in 1..Len(events) : events[i].owner = a
    /\ last.call = "create_kitty"
    /\ ~last.result.ok

\* C15: whenever create_kitty has called gen_dna, the dna it got is the whole
\* digest of the encoded payload (random, extrinsic index or 0, block number)
\* of some context, DnaLen bytes long, and the gender is decided by the
\* low-order bit of the digest's first byte alone: even gives Male, odd gives
\* Female.
C15_DnaAndGender ==
    ( last.call = "create_kitty" /\ last.origin[1] = "Signed" ) =>
        /\ \E c \in Contexts :
                last.dna = blake2_128(<<c[1], unwrap_or_default(c[2]), c[3]>>)
        /\ Len(last.dna) = DnaLen
        /\ \A i \in 1..DnaLen : last.dna[i] \in 0..255
        /\ last.gender = IF last.dna[1] % 2 = 0 THEN "Male" ELSE "Female"

\* gen_dna has returned a digest whose first byte is even and whose second
\* byte is odd, with gender Male.
C15_Witness ==
    /\ last.call = "create_kitty"
    /\ last.origin[1] = "Signed"
    /\ last.dna[1] % 2 = 0
    /\ last.dna[2] % 2 = 1
    /\ last.gender = "Male"

\* C16: the dna create_kitty generates is a function of the context (random,
\* extrinsic index, block number) alone: in every reachable state and for
\* every signed caller, create_kitty in context c uses gen_dna's dna for c.
\* A create_kitty that succeeds in context c stores that dna, a stored dna
\* stays stored, and while the dna of c is stored a create_kitty in c by any
\* account fails with DuplicateKitty and changes nothing.  So once a
\* create_kitty has succeeded in a context, every later one in the same
\* context fails with DuplicateKitty.  (The storage changes only in calls
\* that succeed, so every reachable storage is met in a state whose latest
\* call succeeded, or in the initial state; the first conjunct looks at
\* those.)
C16_SameContextIsDuplicate ==
    /\ [](last.result.ok =>
            \A c \in Contexts : \A a \in AccountId :
                LET dna == gen_dna(c[1], c[2], c[3])[1]
                    out == create_kitty(Current, <<"Signed", a>>, c[1], c[2], c[3])
                IN  /\ out.dna = dna
                    /\ dna \in DOMAIN Kitties =>
                            ( Failed(out, "DuplicateKitty") /\ out.st = Current ))
    /\ [][ /\ ( last'.call = "create_kitty" /\ last'.result.ok ) =>
                \A c \in ContextsOf(last') :
                    gen_dna(c[1], c[2], c[3])[1] \in DOMAIN Kitties'
            /\ DOMAIN Kitties \subseteq DOMAIN Kitties' ]_vars

\* A create_kitty by one account has failed with DuplicateKitty on a dna that
\* an earlier call stored for the other account.
C16_Witness ==
    /\ last.call = "create_kitty"
    /\ Failed(last, "DuplicateKitty")
    /\ Kitties[last.dna].owner # Owner(last)
    /\ Kitties[last.dna].gender = last.gender

RECURSIVE SumOfLengths(_, _)
\* The total length of the sequences owned holds for the accounts in as.
SumOfLengths(owned, as) ==
    IF as = {} THEN 0
    ELSE LET a == CHOOSE x \in as : TRUE
         IN  Len(owned[a]) + SumOfLengths(owned, as \ {a})

\* C17: every record in Kitties appears exactly once in the KittiesOwned
\* sequence of the account in its owner field, no sequence contains an id
\* twice, and the lengths of all sequences add up to CountForKitties.
C17_RecordsAreOwned ==
    /\ \A d \in DOMAIN Kitties :
            Cardinality({i \in 1..Len(KittiesOwned[Kitties[d].owner]) :
                            KittiesOwned[Kitties[d].owner][i] = d}) = 1
    /\ \A a \in AccountId : \A i, j \in 1..Len(KittiesOwned[a]) :
            KittiesOwned[a][i] = KittiesOwned[a][j] => i = j
    /\ SumOfLengths(KittiesOwned, AccountId) = CountForKitties

\* Both accounts own kitties and the registry holds as many as the counter
\* can count.
C17_Witness ==
    /\ Cardinality(DOMAIN Kitties) = U64Max
    /\ \A a \in AccountId : Len(KittiesOwned[a]) > 0

\* C18: mint(owner, dna, gender) succeeds if and only if dna is no key of
\* Kitties, CountForKitties is below its maximum and owner's sequence is
\* shorter than MaxKittiesOwned; the other owners' sequences play no part, so
\* an owner at capacity never makes a mint for another owner fail.
C18_SuccessCondition ==
    [][ReachedMint(last') =>
        ( last'.result.ok <=>
            /\ last'.dna \notin DOMAIN Kitties
            /\ CountForKitties < U64Max
            /\ Len(KittiesOwned[Owner(last')]) < MaxKittiesOwned )]_vars

\* A mint has succeeded for one account while the other is at capacity.
C18_Witness ==
    /\ ReachedMint(last)
    /\ last.result.ok
    /\ \E p \in AccountId \ {Owner(last)} :
            Len(KittiesOwned[p]) = MaxKittiesOwned

\* s is a prefix of t.
IsPrefix(s, t) ==
    /\ Len(s) <= Len(t)
    /\ \A i \in 1..Len(s) : s[i] = t[i]

\* C19: across every step each owner's KittiesOwned sequence before the step
\* is a prefix of the one after it, so ids stay in the order in which they
\* were minted; and a step extends at most one owner's sequence, by at most
\* one id.
C19_AppendOnly ==
    [][ /\ \A a \in AccountId :
                /\ IsPrefix(KittiesOwned[a], KittiesOwned'[a])
                /\ Len(KittiesOwned'[a]) <= Len(KittiesOwned[a]) + 1
        /\ Cardinality({a \in AccountId :
                            KittiesOwned'[a] # KittiesOwned[a]}) <= 1 ]_vars

\* An account that owned a kitty has minted another, which now comes second
\* in its sequence, while the other account's sequence is not empty.
C19_Witness ==
    /\ ReachedMint(last)
    /\ last.result.ok
    /\ Len(KittiesOwned[Owner(last)]) = 2
    /\ KittiesOwned[Owner(last)][2] = last.dna
    /\ \E p \in AccountId \ {Owner(last)} : Len(KittiesOwned[p]) > 0

====
